---- MODULE Spec2Model ----
(***************************************************************************)
(* A model of autothumb: the metadata prober and frame sampler             *)
(* (core/video.py), the frame selector and text generator                  *)
(* (core/analyzer.py) and the `generate` / `analyze` / `info` commands     *)
(* (cli/main.py).                                                          *)
(*                                                                         *)
(* External collaborators (ffprobe, ffmpeg, the hosted model, the file     *)
(* system, the process environment) are the environment: what they return  *)
(* is drawn from bounded sets.  Python values are modelled as follows:     *)
(*   - a dict is a function whose DOMAIN is its key set;                   *)
(*   - None is <<>> and a present value x is <<x>>  (Some / None);         *)
(*   - a str that the code takes apart is a sequence of characters;       *)
(*   - a raised exception is the name of its class.                        *)
(***************************************************************************)
EXTENDS Integers, Sequences, FiniteSets, TLC

(***************************************************************************)
(* Bounds of the model.                                                    *)
(***************************************************************************)
MaxDuration == 5        \* longest video, in seconds
MaxFrames == 3          \* largest num_frames argument
MaxSkip == 2            \* largest skip_start_seconds / skip_end_seconds
MaxRespLen == 3         \* longest model response, in tokens

VARIABLES
    cmd,            \* the entry point being run
    pc,             \* position of the entry point
    exc,            \* the exception that left the last operation ("None" if none)
    exit_code,      \* process exit status (-1 while running)
    video_exists,   \* os: the video path exists
    api_key,        \* os: ANTHROPIC_API_KEY is set
    dirs,           \* os: the directories that exist
    files,          \* os: the frame / image files that exist
    calls,          \* log of the external invocations made so far
    proc,           \* result of the last subprocess.run    (Some / None)
    metadata,       \* VideoProcessor.metadata              (Some / None)
    temp_dir,       \* VideoProcessor.temp_dir              (Some / None)
    args,           \* the arguments of the last method call (Some / None)
    idx,            \* extract_frames: number of timestamps handled so far
    frame_files,    \* extract_frames: the local list frame_files
    frame_paths,    \* the list extract_frames returned to its caller
    response_text,  \* text of the last model response      (Some / None)
    frame_analysis, \* result of analyze_frames             (Some / None)
    text_result,    \* result of generate_thumbnail_text    (Some / None)
    opened,         \* the image file compose opened        (Some / None)
    STYLES,         \* ThumbnailComposer.STYLES, the class-level presets
    composer,       \* the ThumbnailComposer constructed     (Some / None)
    style,          \* compose: its local dict style        (Some / None)
    lines,          \* compose: the wrapped lines           (Some / None)
    draws,          \* compose: what was drawn on the image, line by line
    resolution,     \* generate: the --resolution option    (Some / None)
    target_resolution   \* generate: target_resolution      (Some / None)

vars == <<cmd, pc, exc, exit_code, video_exists, api_key, dirs, files, calls,
          proc, metadata, temp_dir, args, idx, frame_files, frame_paths,
          response_text, frame_analysis, text_result, opened, STYLES, composer,
          style, lines, draws, resolution, target_resolution>>

\* the state of the composer and of the resolution option
renderVars == <<STYLES, composer, style, lines, draws, resolution, target_resolution>>

None == <<>>
Some(x) == <<x>>
Val(o) == o[1]

\* dict.get(k, default)
Get(d, k, default) == IF k \in DOMAIN d THEN d[k] ELSE default

\* the empty dict
EmptyDict == [k \in {} |-> 0]

\* the outcome of a call: the exception it raised, or its return value
Raise(e) == [exc |-> e, value |-> None]
Return(v) == [exc |-> "None", value |-> Some(v)]

(***************************************************************************)
(* Strings that the code parses.                                           *)
(***************************************************************************)
DigitChars == <<"0", "1", "2", "3", "4", "5", "6", "7", "8", "9">>

IsDigit(c) == \E i \in 1..10 : DigitChars[i] = c

DigitVal(c) == (CHOOSE i \in 1..10 : DigitChars[i] = c) - 1

\* str.split(sep) for a one-character separator
RECURSIVE Split(_, _)
Split(s, sep) ==
    IF \E i \in 1..Len(s) : s[i] = sep
    THEN LET i == CHOOSE k \in 1..Len(s) :
                      s[k] = sep /\ \A j \in 1..(k - 1) : s[j] # sep
         IN  <<SubSeq(s, 1, i - 1)>> \o Split(SubSeq(s, i + 1, Len(s)), sep)
    ELSE <<s>>

\* float(s) succeeds on the strings of the model iff s is a non-empty digit string
IsNumber(s) == Len(s) > 0 /\ \A i \in 1..Len(s) : IsDigit(s[i])

RECURSIVE ToNumber(_)
ToNumber(s) ==
    IF Len(s) = 0 THEN 0
    ELSE 10 * ToNumber(SubSeq(s, 1, Len(s) - 1)) + DigitVal(s[Len(s)])

(***************************************************************************)
(* What ffprobe can print (video.py:43-59).  A stream and the format       *)
(* section are dicts whose keys may be absent.                             *)
(***************************************************************************)
\* r_frame_rate values: "30/1", "30/0", "0/0", "0/1", "30" and ""
FrameRateStrings ==
    { <<"3", "0", "/", "1">>, <<"3", "0", "/", "0">>, <<"0", "/", "0">>,
      <<"0", "/", "1">>, <<"3", "0">>, <<>> }

Dimensions == {1080, 1920}

\* the dicts with key k bound to some v in vals, and the dict without k
Opt(k, vals) == {EmptyDict} \cup {k :> v : v \in vals}

VideoStreams ==
    { [codec_type |-> "video", codec_name |-> "h264"] @@ r @@ w @@ h :
        r \in Opt("r_frame_rate", FrameRateStrings),
        w \in Opt("width", Dimensions),
        h \in Opt("height", Dimensions) }

AudioStream == [codec_type |-> "audio", codec_name |-> "aac"]

StreamLists ==
    {<<>>, <<AudioStream>>}
        \cup {<<v>> : v \in VideoStreams}
        \cup {<<AudioStream, v>> : v \in VideoStreams}

Formats ==
    { d @@ b : d \in Opt("duration", 0..MaxDuration),
               b \in Opt("bit_rate", {800000}) }

\* the parsed stdout of ffprobe
ProbeData ==
    {EmptyDict} \cup {[streams |-> ss, format |-> f] : ss \in StreamLists, f \in Formats}

\* a CompletedProcess: exit status, whether stdout is JSON text, the JSON value
ProbeResults ==
    { [tool |-> "ffprobe", returncode |-> 1, json |-> FALSE, stdout |-> EmptyDict],
      [tool |-> "ffprobe", returncode |-> 0, json |-> FALSE, stdout |-> EmptyDict] }
        \cup { [tool |-> "ffprobe", returncode |-> 0, json |-> TRUE, stdout |-> d] :
               d \in ProbeData }

(***************************************************************************)
(* VideoProcessor._get_metadata (video.py:32-87).                          *)
(***************************************************************************)
\* next((s for s in streams if s["codec_type"] == "video"), None)
RECURSIVE FindVideoStream(_)
FindVideoStream(streams) ==
    IF Len(streams) = 0 THEN Return(None)
    ELSE IF "codec_type" \notin DOMAIN Head(streams) THEN Raise("KeyError")
    ELSE IF Head(streams)["codec_type"] = "video" THEN Return(Some(Head(streams)))
    ELSE FindVideoStream(Tail(streams))

\* lines 70-73: fps_str.split("/"), float(parts[0]) / float(parts[1])
ParseFps(video_stream) ==
    LET fps_str == Get(video_stream, "r_frame_rate", <<"3", "0", "/", "1">>)
        fps_parts == Split(fps_str, "/")
    IN  IF ~IsNumber(fps_parts[1]) THEN Raise("ValueError")
        ELSE IF Len(fps_parts) < 2 THEN Raise("IndexError")
        ELSE IF ~IsNumber(fps_parts[2]) THEN Raise("ValueError")
        ELSE IF ToNumber(fps_parts[2]) = 0 THEN Raise("ZeroDivisionError")
        ELSE Return([num |-> ToNumber(fps_parts[1]), den |-> ToNumber(fps_parts[2])])

\* line 81 with another default
BitRateOrTypical(format) == Get(format, "bit_rate", 800000)

\* line 81: int(data["format"].get("bit_rate", 0))
BitRate(format) == Get(format, "bit_rate", 0)

\* the body of the try block, lines 43-82
ProbeBody(result) ==
    IF result.returncode # 0 THEN Raise("CalledProcessError")
    ELSE IF ~result.json THEN Raise("JSONDecodeError")
    ELSE LET data == result.stdout IN
    IF "streams" \notin DOMAIN data THEN Raise("KeyError")
    ELSE LET found == FindVideoStream(data["streams"]) IN
    IF found.exc # "None" THEN found
    ELSE IF Val(found.value) = None THEN Raise("ValueError")
    ELSE LET video_stream == Val(Val(found.value))
             fps == ParseFps(video_stream) IN
    IF fps.exc # "None" THEN fps
    ELSE IF "format" \notin DOMAIN data THEN Raise("KeyError")
    ELSE Return([duration |-> Get(data["format"], "duration", 0),
                 width    |-> Get(video_stream, "width", 0),
                 height   |-> Get(video_stream, "height", 0),
                 fps      |-> Val(fps.value),
                 codec    |-> Get(video_stream, "codec_name", "unknown"),
                 bitrate  |-> BitRate(data["format"])])

\* the except clauses, lines 84-87
ProbeCaughtNoValueError == {"CalledProcessError", "JSONDecodeError", "KeyError"}

ProbeCaught == {"CalledProcessError", "JSONDecodeError", "KeyError", "ValueError"}

GetMetadata(result) ==
    LET r == ProbeBody(result)
    IN  IF r.exc \in ProbeCaught THEN Raise("RuntimeError") ELSE r

(***************************************************************************)
(* The style presets of ThumbnailComposer (composer.py:13-58).  A colour   *)
(* is an RGB tuple, None when absent; background_opacity is in hundredths. *)
(***************************************************************************)
BuiltinStyles ==
    [youtube |->
        [font_size_main |-> 72, font_size_sub |-> 36, text_color |-> <<255, 255, 255>>,
         outline_color |-> <<0, 0, 0>>, outline_width |-> 4, position |-> "center",
         background_opacity |-> 30, shadow |-> TRUE, bold |-> TRUE],
     minimalist |->
        [font_size_main |-> 60, font_size_sub |-> 30, text_color |-> <<255, 255, 255>>,
         outline_color |-> None, outline_width |-> 0, position |-> "bottom",
         background_opacity |-> 50, shadow |-> FALSE, bold |-> FALSE],
     bold |->
        [font_size_main |-> 120, font_size_sub |-> 50, text_color |-> <<255, 215, 0>>,
         outline_color |-> <<0, 0, 0>>, outline_width |-> 6, position |-> "center",
         background_opacity |-> 40, shadow |-> TRUE, bold |-> TRUE],
     tech |->
        [font_size_main |-> 64, font_size_sub |-> 32, text_color |-> <<0, 255, 255>>,
         outline_color |-> <<0, 0, 0>>, outline_width |-> 3, position |-> "top",
         background_opacity |-> 60, shadow |-> TRUE, bold |-> FALSE]]

(***************************************************************************)
(* Entry points.  A CLI command turns every exception into exit status 1   *)
(* (main.py:179-189, 270-272, 380-382); a library caller sees it raised.   *)
(***************************************************************************)
CliCommands == {"generate", "analyze", "info"}

InitOf(c) ==
    /\ cmd = c
    /\ pc = "start"
    /\ exc = "None"
    /\ exit_code = -1
    /\ api_key \in BOOLEAN
    /\ calls = <<>>
    /\ proc = None
    /\ metadata = None
    /\ temp_dir = None
    /\ args = None
    /\ idx = 0
    /\ frame_files = <<>>
    /\ response_text = None
    /\ frame_analysis = None
    /\ text_result = None
    /\ opened = None
    /\ STYLES = BuiltinStyles
    /\ composer = None
    /\ style = None
    /\ lines = None
    /\ draws = <<>>
    /\ resolution = None
    /\ target_resolution = None

\* an entry of the log of external invocations; num/den is the -ss argument of ffmpeg
Call(tool, num, den) == [tool |-> tool, num |-> num, den |-> den]

\* an exception e leaves the current operation
Abort(e) ==
    /\ exc' = e
    /\ pc' = IF cmd \in CliCommands THEN "exit" ELSE "raised"
    /\ exit_code' = IF cmd \in CliCommands THEN 1 ELSE exit_code

\* the current operation returns and the entry point moves on to `next`
Goto(next) ==
    /\ pc' = next
    /\ UNCHANGED <<exc, exit_code>>

\* __init__ with the existence test made after the probe
ConstructProbeFirst(results) ==
    /\ pc = "start"
    /\ \E result \in results :
        LET r == GetMetadata(result) IN
        /\ calls' = Append(calls, Call("ffprobe", 0, 1))
        /\ proc' = Some(result)
        /\ IF ~video_exists
           THEN Abort("FileNotFoundError") /\ UNCHANGED metadata
           ELSE IF r.exc # "None"
           THEN Abort(r.exc) /\ UNCHANGED metadata
           ELSE Goto("constructed") /\ metadata' = r.value
    /\ UNCHANGED renderVars
    /\ UNCHANGED <<cmd, video_exists, api_key, dirs, files, temp_dir, args, idx,
                   frame_files, frame_paths, response_text, frame_analysis,
                   text_result, opened>>

\* VideoProcessor.__init__ (video.py:25-30)
Construct(results) ==
    /\ pc = "start"
    /\ IF ~video_exists
       THEN /\ Abort("FileNotFoundError")
            /\ UNCHANGED <<calls, proc, metadata>>
       ELSE \E result \in results :
                LET r == GetMetadata(result) IN
                /\ calls' = Append(calls, Call("ffprobe", 0, 1))
                /\ proc' = Some(result)
                /\ IF r.exc # "None"
                   THEN Abort(r.exc) /\ UNCHANGED metadata
                   ELSE Goto("constructed") /\ metadata' = r.value
    /\ UNCHANGED renderVars
    /\ UNCHANGED <<cmd, video_exists, api_key, dirs, files, temp_dir, args, idx,
                   frame_files, frame_paths, response_text, frame_analysis,
                   text_result, opened>>

\* info (main.py:363-378): print the table and return
Info ==
    /\ cmd = "info"
    /\ pc = "constructed"
    /\ pc' = "exit"
    /\ exit_code' = 0
    /\ UNCHANGED renderVars
    /\ UNCHANGED <<cmd, exc, video_exists, api_key, dirs, files, calls, proc,
                   metadata, temp_dir, args, idx, frame_files, frame_paths,
                   response_text, frame_analysis, text_result, opened>>

(***************************************************************************)
(* Frame files.  f"frame_{idx:04d}.jpg" is the digit string of idx padded  *)
(* with zeros to at least four characters; sorted() orders the paths of    *)
(* one directory by these strings.                                         *)
(***************************************************************************)
PadWidth == 4

RECURSIVE ToDigits(_)
ToDigits(n) == IF n < 10 THEN <<n>> ELSE Append(ToDigits(n \div 10), n % 10)

RECURSIVE ZeroPad(_, _)
ZeroPad(ds, width) == IF Len(ds) >= width THEN ds ELSE ZeroPad(<<0>> \o ds, width)

FrameName(i) == ZeroPad(ToDigits(i), PadWidth)

Path(dir, name) == [dir |-> dir, name |-> name]

\* a < b for two strings given as digit sequences
RECURSIVE LexLess(_, _)
LexLess(a, b) ==
    IF Len(b) = 0 THEN FALSE
    ELSE IF Len(a) = 0 THEN TRUE
    ELSE IF Head(a) # Head(b) THEN Head(a) < Head(b)
    ELSE LexLess(Tail(a), Tail(b))

\* sorted(paths), by insertion
RECURSIVE Insert(_, _)
Insert(p, sorted) ==
    IF Len(sorted) = 0 THEN <<p>>
    ELSE IF LexLess(p.name, Head(sorted).name) THEN <<p>> \o sorted
    ELSE <<Head(sorted)>> \o Insert(p, Tail(sorted))

RECURSIVE Sorted(_)
Sorted(paths) == IF Len(paths) = 0 THEN <<>> ELSE Insert(Head(paths), Sorted(Tail(paths)))

(***************************************************************************)
(* VideoProcessor.extract_frames (video.py:89-166).  Times are whole       *)
(* seconds; a timestamp is the exact fraction num/den.                     *)
(***************************************************************************)
DefaultSkip == 2        \* skip_start_seconds = skip_end_seconds = 2.0

\* a directory is the sequence of its path components
TempDirs == {<<"tmp", "autothumb_1">>, <<"tmp", "autothumb_2">>}    \* tempfile.mkdtemp

IsPrefix(p, d) == Len(p) <= Len(d) /\ SubSeq(d, 1, Len(p)) = p

\* os.makedirs(d, exist_ok=True): d and its parents
MakeDirs(d) == {SubSeq(d, 1, k) : k \in 1..Len(d)}

\* shutil.rmtree(d): what is left of a set of directories / of files
RmTreeDirs(ds, d) == {x \in ds : ~IsPrefix(d, x)}
RmTreeFiles(fs, d) == {f \in fs : ~IsPrefix(d, f.dir)}

\* lines 121-122
UsableDurationNoSkipEnd(duration, a) == duration - a.skip_start

UsableDuration(duration, a) == duration - a.skip_start - a.skip_end

\* lines 128-131 with the step usable / num_frames
TimestampsOverCount(duration, a) ==
    [i \in 1..a.num_frames |->
        [num |-> a.skip_start * a.num_frames + (i - 1) * UsableDuration(duration, a),
         den |-> a.num_frames]]

\* lines 128-131, for num_frames # 1: range(num_frames) is empty for num_frames <= 0
Timestamps(duration, a) ==
    [i \in 1..a.num_frames |->
        [num |-> a.skip_start * (a.num_frames - 1) + (i - 1) * UsableDuration(duration, a),
         den |-> a.num_frames - 1]]

\* ffmpeg -ss t -vframes 1 encodes a frame iff the video has one at or after t
HasFrameAt(duration, t) == t.num < duration * t.den

\* lines 112-116 remembering the caller's directory as well
TempDirAfterAlways(a, d) == Some(d)

\* lines 112-116 and 186-190: self.temp_dir is assigned only the directory
\* that mkdtemp made
TempDirAfter(a, d) == IF a.output_dir = None THEN Some(d) ELSE temp_dir

\* lines 111-131: the directory, the usable span, the timestamps
ExtractBegin(argset) ==
    /\ pc = IF cmd = "generate" THEN "resolved" ELSE "constructed"
    /\ cmd # "info"
    /\ \E a \in argset :
        LET out == IF a.output_dir = None
                   THEN {d \in TempDirs : d \notin dirs}
                   ELSE {Val(a.output_dir)}
        IN \E d \in out :
            /\ args' = Some([a EXCEPT !.output_dir = Some(d)])
            /\ temp_dir' = TempDirAfter(a, d)
            /\ dirs' = dirs \cup MakeDirs(d)
            /\ IF UsableDuration(Val(metadata).duration, a) <= 0
               THEN Abort("ValueError")
               ELSE IF a.num_frames = 1
               THEN Abort("ZeroDivisionError")
               ELSE Goto("extracting")
    /\ idx' = 0
    /\ frame_files' = <<>>
    /\ UNCHANGED renderVars
    /\ UNCHANGED <<cmd, video_exists, api_key, files, calls, proc, metadata,
                   frame_paths, response_text, frame_analysis, text_result, opened>>

\* one turn of the loop with check=False: a failed ffmpeg run is passed over
ExtractOneUnchecked ==
    /\ pc = "extracting"
    /\ idx < Val(args).num_frames
    /\ LET a == Val(args)
           duration == Val(metadata).duration
           timestamp == Timestamps(duration, a)[idx + 1]
           frame_path == Path(Val(a.output_dir), FrameName(idx + 1))
       IN \E returncode \in {0, 1} :
            /\ calls' = Append(calls, Call("ffmpeg", timestamp.num, timestamp.den))
            /\ proc' = Some([tool |-> "ffmpeg", returncode |-> returncode,
                             json |-> FALSE, stdout |-> EmptyDict])
            /\ files' = IF returncode = 0 /\ HasFrameAt(duration, timestamp)
                        THEN files \cup {frame_path} ELSE files
            /\ frame_files' = IF frame_path \in files'
                              THEN Append(frame_files, frame_path)
                              ELSE frame_files
            /\ idx' = idx + 1
            /\ Goto("extracting")
    /\ UNCHANGED renderVars
    /\ UNCHANGED <<cmd, video_exists, api_key, dirs, metadata, temp_dir, args,
                   frame_paths, response_text, frame_analysis, text_result, opened>>

\* lines 136-158: one turn of the loop, one ffmpeg invocation
ExtractOne ==
    /\ pc = "extracting"
    /\ idx < Val(args).num_frames
    /\ LET a == Val(args)
           duration == Val(metadata).duration
           timestamp == Timestamps(duration, a)[idx + 1]
           frame_path == Path(Val(a.output_dir), FrameName(idx + 1))
       IN \E returncode \in {0, 1} :
            /\ calls' = Append(calls, Call("ffmpeg", timestamp.num, timestamp.den))
            /\ proc' = Some([tool |-> "ffmpeg", returncode |-> returncode,
                             json |-> FALSE, stdout |-> EmptyDict])
            /\ IF returncode # 0
               THEN /\ Abort("RuntimeError")
                    /\ UNCHANGED <<files, frame_files, idx>>
               ELSE /\ files' = IF HasFrameAt(duration, timestamp)
                                THEN files \cup {frame_path} ELSE files
                    /\ frame_files' = IF frame_path \in files'
                                      THEN Append(frame_files, frame_path)
                                      ELSE frame_files
                    /\ idx' = idx + 1
                    /\ Goto("extracting")
    /\ UNCHANGED renderVars
    /\ UNCHANGED <<cmd, video_exists, api_key, dirs, metadata, temp_dir, args,
                   frame_paths, response_text, frame_analysis, text_result, opened>>

\* after the loop, without lines 160-161
ExtractEndAnyList ==
    /\ pc = "extracting"
    /\ idx >= Val(args).num_frames
    /\ Goto("extracted") /\ frame_paths' = Some(Sorted(frame_files))
    /\ UNCHANGED renderVars
    /\ UNCHANGED <<cmd, video_exists, api_key, dirs, files, calls, proc, metadata,
                   temp_dir, args, idx, frame_files, response_text, frame_analysis,
                   text_result, opened>>

\* lines 160-163: after the loop
ExtractEnd ==
    /\ pc = "extracting"
    /\ idx >= Val(args).num_frames
    /\ IF Len(frame_files) = 0
       THEN Abort("RuntimeError") /\ UNCHANGED frame_paths
       ELSE Goto("extracted") /\ frame_paths' = Some(Sorted(frame_files))
    /\ UNCHANGED renderVars
    /\ UNCHANGED <<cmd, video_exists, api_key, dirs, files, calls, proc, metadata,
                   temp_dir, args, idx, frame_files, response_text, frame_analysis,
                   text_result, opened>>

\* f.startswith("frame_") and f.endswith(".jpg"): a frame name is kept as the
\* digits between the two
IsFrameName(name) == \A i \in 1..Len(name) : name[i] \in 0..9

\* lines 212-216: the frame files that os.listdir(output_dir) shows, sorted
ListFrames(fs, dir) == {f \in fs : f.dir = dir /\ IsFrameName(f.name)}

RECURSIVE SortedSet(_)
SortedSet(S) ==
    IF S = {} THEN <<>>
    ELSE LET p == CHOOSE x \in S : TRUE IN Insert(p, SortedSet(S \ {p}))

MaxInterval == 2        \* largest interval_seconds argument

Min(a, b) == IF a < b THEN a ELSE b

\* the arguments a library caller may pass to extract_frames_interval
IntervalArgs ==
    { [interval |-> i, output_dir |-> o, max_frames |-> m] :
        i \in 1..MaxInterval, o \in {None, Some(<<"out">>)}, m \in 1..MaxFrames }

\* VideoProcessor.extract_frames_interval (video.py:168-221): one ffmpeg run
\* with the fps filter writes frame_0001.jpg .. frame_k.jpg, k <= max_frames,
\* over whatever files of those names exist; the result lists the directory
ExtractInterval(argset) ==
    /\ cmd = "extract_frames"
    /\ pc \in {"constructed", "extracted"}
    /\ \E a \in argset :
        LET out == IF a.output_dir = None
                   THEN {d \in TempDirs : d \notin dirs}
                   ELSE {Val(a.output_dir)}
            most == Min(a.max_frames, (Val(metadata).duration \div a.interval) + 1)
        IN \E d \in out, k \in 0..most, returncode \in {0, 1} :
            /\ args' = Some([a EXCEPT !.output_dir = Some(d)])
            /\ temp_dir' = TempDirAfter(a, d)
            /\ dirs' = dirs \cup MakeDirs(d)
            /\ calls' = Append(calls, Call("ffmpeg_fps", a.interval, 1))
            /\ proc' = Some([tool |-> "ffmpeg", returncode |-> returncode,
                             json |-> FALSE, stdout |-> EmptyDict])
            /\ files' = files \cup {Path(d, FrameName(i)) : i \in 1..k}
            /\ IF returncode # 0
               THEN Abort("RuntimeError") /\ UNCHANGED frame_paths
               ELSE /\ Goto("listed")
                    /\ frame_paths' = Some(SortedSet(ListFrames(files', d)))
    /\ UNCHANGED renderVars
    /\ UNCHANGED <<cmd, video_exists, api_key, metadata, idx, frame_files,
                   response_text, frame_analysis, text_result, opened>>

\* the arguments a library caller may pass
ExtractArgs ==
    { [num_frames |-> n, output_dir |-> o, skip_start |-> s, skip_end |-> e] :
        n \in (0 - 1)..MaxFrames, o \in {None, Some(<<"out">>)},
        s \in 0..MaxSkip, e \in 0..MaxSkip }

\* ffprobe's output for a well-formed video file
ProbeOk(duration, width, height) ==
    [tool |-> "ffprobe", returncode |-> 0, json |-> TRUE,
     stdout |-> [streams |-> <<[codec_type |-> "video", codec_name |-> "h264",
                                r_frame_rate |-> <<"3", "0", "/", "1">>,
                                width |-> width, height |-> height]>>,
                 format |-> [duration |-> duration, bit_rate |-> 800000]]]

\* VideoProcessor.cleanup (video.py:264-269)
CleanupDirs == IF temp_dir # None /\ Val(temp_dir) \in dirs
               THEN RmTreeDirs(dirs, Val(temp_dir)) ELSE dirs
CleanupFiles == IF temp_dir # None /\ Val(temp_dir) \in dirs
                THEN RmTreeFiles(files, Val(temp_dir)) ELSE files
CleanupTemp == IF temp_dir # None /\ Val(temp_dir) \in dirs THEN None ELSE temp_dir

\* __exit__ (video.py:275-277) of a caller's `with VideoProcessor(...) as p:`
\* block: it runs cleanup when the block ends, after any of the calls made in
\* it returned or raised; the exception of the block, if any, goes on
ContextExit ==
    /\ cmd = "extract_frames"
    /\ metadata # None
    /\ pc \in {"constructed", "extracted", "listed", "raised"}
    /\ dirs' = CleanupDirs
    /\ files' = CleanupFiles
    /\ temp_dir' = CleanupTemp
    /\ pc' = "closed"
    /\ UNCHANGED renderVars
    /\ UNCHANGED <<cmd, exc, exit_code, video_exists, api_key, calls, proc, metadata,
                   args, idx, frame_files, frame_paths, response_text,
                   frame_analysis, text_result, opened>>

\* frame files left in a directory by an earlier run
MaxStale == 1

StaleFiles(dir) == SUBSET {Path(dir, FrameName(i)) : i \in 1..MaxStale}

(***************************************************************************)
(* The sampler on its own: a caller constructs a processor for a           *)
(* well-formed video and calls extract_frames once.                        *)
(***************************************************************************)
InitExtract ==
    /\ InitOf("extract_frames")
    /\ video_exists = TRUE
    /\ frame_paths = None
    /\ \/ dirs = {} /\ files = {}
       \/ dirs = {<<"out">>} /\ files \in StaleFiles(<<"out">>)

ExtractProbes == {ProbeOk(d, 1920, 1080) : d \in 0..MaxDuration}

NextExtract ==
    \/ Construct(ExtractProbes)
    \/ ExtractBegin(ExtractArgs)
    \/ ExtractOne
    \/ ExtractEnd
    \/ ExtractInterval(IntervalArgs)

SpecExtract == InitExtract /\ [][NextExtract]_vars

(***************************************************************************)
(* The processor as a context manager: a caller constructs it, makes       *)
(* extraction calls inside a with block, and the block ends.               *)
(***************************************************************************)
InitContext == InitExtract

NextContext ==
    \/ Construct(ExtractProbes)
    \/ ExtractBegin(ExtractArgs)
    \/ ExtractOne
    \/ ExtractEnd
    \/ ExtractInterval(IntervalArgs)
    \/ ContextExit

SpecContext == InitContext /\ [][NextContext]_vars

(***************************************************************************)
(* The prober on its own: `info` on any file and any ffprobe output.       *)
(***************************************************************************)
InitProbe ==
    /\ InitOf("info")
    /\ video_exists \in BOOLEAN
    /\ frame_paths = None
    /\ dirs = {}
    /\ files = {}

NextProbe == Construct(ProbeResults) \/ Info

SpecProbe == InitProbe /\ [][NextProbe]_vars

(***************************************************************************)
(* The hosted model's reply.  A response text is a sequence of tokens: an  *)
(* opening brace, a closing brace, a piece of prose without braces, or a   *)
(* JSON member `"k": value` whose value is coded by the integer v.         *)
(***************************************************************************)
Tok(k, v) == [k |-> k, v |-> v]
LB == Tok("{", 0)
RB == Tok("}", 0)
Prose == Tok("text", 0)

IsMember(t) == t.k \notin {"{", "}", "text"}

\* a string of w words, as characters
RECURSIVE Words(_)
Words(w) == IF w <= 0 THEN <<>> ELSE IF w = 1 THEN <<"a">> ELSE Words(w - 1) \o <<" ", "a">>

\* the Python value of the JSON member k coded by v
JsonValue(k, v) ==
    CASE k = "best_frame_index" -> v
      [] k = "frames" -> [i \in 1..v |-> [index |-> i - 1, score |-> 8]]
      [] k \in {"main_text", "subtext"} -> Words(v)
      [] OTHER -> <<Tok("text", v)>>

\* re.search(r'\{.*\}', text, re.DOTALL): from the first "{" to the last "}"
FirstLB(text) == CHOOSE i \in 1..Len(text) :
                    text[i] = LB /\ \A j \in 1..(i - 1) : text[j] # LB
LastRB(text) == CHOOSE i \in 1..Len(text) :
                    text[i] = RB /\ \A j \in (i + 1)..Len(text) : text[j] # RB

JsonMatch(text) ==
    IF \E i, j \in 1..Len(text) : i < j /\ text[i] = LB /\ text[j] = RB
    THEN Some(SubSeq(text, FirstLB(text), LastRB(text)))
    ELSE None

\* json.loads(group): an object is "{", members, "}"; a later member wins
JsonLoads(group) ==
    LET inner == SubSeq(group, 2, Len(group) - 1)
        last(k) == CHOOSE i \in 1..Len(inner) :
                      inner[i].k = k /\ \A j \in (i + 1)..Len(inner) : inner[j].k # k
    IN  IF \A i \in 1..Len(inner) : IsMember(inner[i])
        THEN Return([k \in {inner[i].k : i \in 1..Len(inner)} |->
                        JsonValue(k, inner[last(k)].v)])
        ELSE Raise("JSONDecodeError")

\* seq[i] for a Python index i
PyIndexOk(seq, i) == -Len(seq) <= i /\ i < Len(seq)
PyIndex(seq, i) == IF i >= 0 THEN seq[i + 1] ELSE seq[Len(seq) + i + 1]

\* a reply of the hosted model: a transport / auth failure, or a text
Texts(tokens, n) == UNION {[1..k -> tokens] : k \in 0..n}

Replies(tokens, n) ==
    {[error |-> TRUE, text |-> <<>>]} \cup {[error |-> FALSE, text |-> t] : t \in Texts(tokens, n)}

(***************************************************************************)
(* FrameAnalyzer (analyzer.py).                                            *)
(***************************************************************************)
\* analyze_frames, lines 90-91 and 139-141: the checks made before the request
AnalyzeChecks(paths) ==
    IF Len(paths) = 0 THEN "ValueError"
    ELSE IF \E i \in 1..Len(paths) : paths[i] \notin files THEN "FileNotFoundError"
    ELSE "None"

\* lines 185-189: the analysis used when the response holds no JSON
AnalysisFallbackNoText(text) ==
    [best_frame_index |-> 0, reasoning |-> <<>>, frames |-> <<>>]

AnalysisFallback(text) ==
    [best_frame_index |-> 0, reasoning |-> text, frames |-> <<>>]

\* analyze_frames, lines 163-199: the body of the try block
AnalyzeBody(paths, reply) ==
    IF reply.error THEN Raise("APIError")
    ELSE LET json_match == JsonMatch(reply.text)
             loaded == IF json_match # None THEN JsonLoads(Val(json_match))
                       ELSE Return(AnalysisFallback(reply.text))
         IN IF loaded.exc # "None" THEN loaded
            ELSE LET analysis == Val(loaded.value)
                     best_index == Get(analysis, "best_frame_index", 0)
                 IN IF ~PyIndexOk(paths, best_index) THEN Raise("IndexError")
                    ELSE Return([best_frame_index |-> best_index,
                                 best_frame_path |-> PyIndex(paths, best_index),
                                 reasoning |-> Get(analysis, "reasoning", <<>>),
                                 scores |-> Get(analysis, "frames", <<>>),
                                 raw_response |-> reply.text])

\* lines 201-204 and 294-297: except anthropic.APIError / except Exception
ApiUncaught(r) == r

ApiCaught(r) == IF r.exc # "None" THEN Raise("RuntimeError") ELSE r

CharsPerWord == 7       \* video_description[:max_words * 7]

\* s[:n]
Slice(s, n) == SubSeq(s, 1, IF n < Len(s) THEN n ELSE Len(s))

\* generate_thumbnail_text, lines 266-292: the body of the try block
TextBody(description, max_words, reply) ==
    IF reply.error THEN Raise("APIError")
    ELSE LET json_match == JsonMatch(reply.text)
         IN IF json_match # None THEN JsonLoads(Val(json_match))
            ELSE Return([main_text |-> Slice(description, max_words * CharsPerWord),
                         subtext |-> <<>>,
                         reasoning |-> <<Tok("text", 9)>>])

\* FrameAnalyzer.__init__ (lines 24-31)
NewAnalyzer ==
    /\ \/ cmd = "generate" /\ pc = "extracted"
       \/ cmd = "analyze" /\ pc = "closed"
       \/ cmd = "analyzer" /\ pc = "start"
    /\ IF ~api_key THEN Abort("ValueError") ELSE Goto("ready")
    /\ UNCHANGED renderVars
    /\ UNCHANGED <<cmd, video_exists, api_key, dirs, files, calls, proc, metadata,
                   temp_dir, args, idx, frame_files, frame_paths, response_text,
                   frame_analysis, text_result, opened>>

\* analyze_frames with the request sent again after a failed one
AnalyzeFramesRetry(replies) ==
    /\ pc = "ready"
    /\ LET paths == Val(frame_paths)
           checks == AnalyzeChecks(paths)
       IN IF checks # "None"
          THEN /\ Abort(checks)
               /\ UNCHANGED <<calls, response_text, frame_analysis>>
          ELSE \E first \in replies, reply \in replies :
                LET r == ApiCaught(AnalyzeBody(paths, reply)) IN
                /\ calls' = IF first.error
                            THEN calls \o <<Call("analyze_frames", 0, 1),
                                            Call("analyze_frames", 0, 1)>>
                            ELSE Append(calls, Call("analyze_frames", 0, 1))
                /\ response_text' = IF reply.error THEN None ELSE Some(reply.text)
                /\ IF r.exc # "None"
                   THEN Abort(r.exc) /\ UNCHANGED frame_analysis
                   ELSE Goto("analyzed") /\ frame_analysis' = r.value
    /\ UNCHANGED renderVars
    /\ UNCHANGED <<cmd, video_exists, api_key, dirs, files, proc, metadata,
                   temp_dir, args, idx, frame_files, frame_paths, text_result, opened>>

\* FrameAnalyzer.analyze_frames (lines 90-204)
AnalyzeFrames(replies) ==
    /\ pc = "ready"
    /\ LET paths == Val(frame_paths)
           checks == AnalyzeChecks(paths)
       IN IF checks # "None"
          THEN /\ Abort(checks)
               /\ UNCHANGED <<calls, response_text, frame_analysis>>
          ELSE \E reply \in replies :
                LET r == ApiCaught(AnalyzeBody(paths, reply)) IN
                /\ calls' = Append(calls, Call("analyze_frames", 0, 1))
                /\ response_text' = IF reply.error THEN None ELSE Some(reply.text)
                /\ IF r.exc # "None"
                   THEN Abort(r.exc) /\ UNCHANGED frame_analysis
                   ELSE Goto("analyzed") /\ frame_analysis' = r.value
    /\ UNCHANGED renderVars
    /\ UNCHANGED <<cmd, video_exists, api_key, dirs, files, proc, metadata,
                   temp_dir, args, idx, frame_files, frame_paths, text_result, opened>>

\* FrameAnalyzer.generate_thumbnail_text (lines 229-297)
GenerateText(descriptions, word_limits, replies) ==
    /\ \/ cmd \in {"generate", "analyze"} /\ pc = "analyzed"
       \/ cmd = "analyzer" /\ pc = "ready"
    /\ \E description \in descriptions, max_words \in word_limits, reply \in replies :
        LET r == ApiCaught(TextBody(description, max_words, reply)) IN
        /\ args' = Some([description |-> description, max_words |-> max_words])
        /\ calls' = Append(calls, Call("generate_thumbnail_text", 0, 1))
        /\ response_text' = IF reply.error THEN None ELSE Some(reply.text)
        /\ IF r.exc # "None"
           THEN Abort(r.exc) /\ UNCHANGED text_result
           ELSE Goto("texted") /\ text_result' = r.value
    /\ UNCHANGED renderVars
    /\ UNCHANGED <<cmd, video_exists, api_key, dirs, files, proc, metadata,
                   temp_dir, idx, frame_files, frame_paths, frame_analysis, opened>>

(***************************************************************************)
(* The selector and the text generator on their own: a caller holds a list *)
(* of frame paths, constructs a FrameAnalyzer and makes one call.          *)
(***************************************************************************)
MaxWords == 2           \* largest max_words argument
MaxDescLen == 3         \* longest video description, in characters

IndexValues == (0 - MaxFrames - 1)..MaxFrames

AnalysisTokens ==
    {LB, RB, Prose, Tok("reasoning", 1), Tok("frames", 1)}
        \cup {Tok("best_frame_index", i) : i \in IndexValues}

TextTokens ==
    {LB, RB, Prose, Tok("subtext", 1)} \cup {Tok("main_text", w) : w \in 1..(MaxWords + 1)}

Descriptions == UNION {[1..k -> {"a", " "}] : k \in 0..MaxDescLen}

FrameList(n) == [i \in 1..n |-> Path(<<"out">>, FrameName(i))]

InitSelect ==
    /\ InitOf("analyzer")
    /\ video_exists = TRUE
    /\ dirs = {<<"out">>}
    /\ \E n \in 0..MaxFrames :
        /\ frame_paths = Some(FrameList(n))
        /\ \/ files = {FrameList(n)[i] : i \in 1..n}
           \/ n > 0 /\ files = {FrameList(n)[i] : i \in 1..(n - 1)}

AnalysisReplies == Replies(AnalysisTokens, MaxRespLen)

TextReplies == Replies(TextTokens, MaxRespLen)

NextSelect ==
    \/ NewAnalyzer
    \/ AnalyzeFrames(AnalysisReplies)
    \/ GenerateText(Descriptions, 1..MaxWords, TextReplies)

SpecSelect == InitSelect /\ [][NextSelect]_vars

(***************************************************************************)
(* ThumbnailComposer (composer.py).  A text is a sequence of characters, a *)
(* font is its size, and the width Pillow measures for a line is its       *)
(* number of characters times the advance width of the font.               *)
(***************************************************************************)
\* bool(x) for None, a tuple, a str or a dict
Truthy(x) == DOMAIN x # {}

Max(a, b) == IF a > b THEN a ELSE b

\* d.update(u)
Update(d, u) == [k \in DOMAIN d \cup DOMAIN u |-> IF k \in DOMAIN u THEN u[k] ELSE d[k]]

\* lines 284-286: style = self.style.copy(); if custom_style: style.update(custom_style)
EffectiveStyle(preset, custom_style) ==
    IF Truthy(custom_style) THEN Update(preset, custom_style) ELSE preset

\* lines 284-286 without the copy: the update goes to the preset itself
PresetAfterNoCopy(preset, custom_style) == EffectiveStyle(preset, custom_style)

\* the dict self.style refers to, after lines 284-286: only the copy is updated
PresetAfter(preset, custom_style) == preset

\* text.split()
RECURSIVE SplitWords(_)
SplitWords(s) ==
    IF Len(s) = 0 THEN <<>>
    ELSE IF Head(s) = " " THEN SplitWords(Tail(s))
    ELSE LET n == CHOOSE k \in 1..(Len(s) + 1) :
                      /\ k = Len(s) + 1 \/ s[k] = " "
                      /\ \A j \in 1..(k - 1) : s[j] # " "
         IN  <<SubSeq(s, 1, n - 1)>> \o SplitWords(SubSeq(s, n, Len(s)))

\* " ".join(words)
RECURSIVE Join(_)
Join(words) ==
    IF Len(words) = 0 THEN <<>>
    ELSE IF Len(words) = 1 THEN words[1]
    ELSE words[1] \o <<" ">> \o Join(Tail(words))

\* font.getbbox(line): bbox[2] - bbox[0]
GlyphWidth(font) == font \div 2
TextWidth(line, font) == Len(line) * GlyphWidth(font)

\* _wrap_text, lines 176-195: the loop over the words, then the last line
RECURSIVE WrapLoop(_, _, _, _, _)
WrapLoop(words, current_line, done, font, max_width) ==
    LET flushed == IF Len(current_line) > 0 THEN Append(done, Join(current_line)) ELSE done
    IN  IF Len(words) = 0 THEN flushed
        ELSE LET word == Head(words)
                 test_line == Join(Append(current_line, word))
             IN  IF TextWidth(test_line, font) <= max_width
                 THEN WrapLoop(Tail(words), Append(current_line, word), done, font, max_width)
                 ELSE WrapLoop(Tail(words), <<word>>, flushed, font, max_width)

\* _wrap_text keeping the first line only
WrapTextFirstLine(text, font, max_width) ==
    LET wrapped == WrapLoop(SplitWords(text), <<>>, <<>>, font, max_width)
    IN  IF Len(wrapped) = 0 THEN <<>> ELSE <<wrapped[1]>>

\* _wrap_text without the width test: all words on one line
WrapTextOneLine(text, font, max_width) ==
    IF Len(SplitWords(text)) = 0 THEN <<>> ELSE <<Join(SplitWords(text))>>

WrapText(text, font, max_width) == WrapLoop(SplitWords(text), <<>>, <<>>, font, max_width)

\* _draw_text_with_outline, lines 142-154: the number of outline draw.text calls
OutlineDraws(outline_color, outline_width) ==
    IF Truthy(outline_color) /\ outline_width > 0
    THEN (2 * outline_width + 1) * (2 * outline_width + 1) - 1
    ELSE 0

MainShadowOffset == 5   \* offset=5
SubShadowOffset == 3    \* offset=3

\* lines 333-353 and 358-376: what is drawn for each line of one block
DrawLines(block, wrapped, st, font, offset, outline_width) ==
    [i \in 1..Len(wrapped) |->
        [block |-> block, text |-> wrapped[i], font |-> font,
         shadow |-> IF Get(st, "shadow", FALSE) THEN offset ELSE 0,
         outline |-> OutlineDraws(st.outline_color, outline_width),
         fill |-> st.text_color]]

\* ThumbnailComposer.__init__ (lines 67-68)
NewComposer(names) ==
    /\ cmd = "composer"
    /\ pc = "start"
    /\ \E name \in names :
        composer' = Some([style_name |-> name,
                          style |-> IF name \in DOMAIN STYLES THEN name ELSE "youtube"])
    /\ Goto("ready")
    /\ UNCHANGED <<cmd, video_exists, api_key, dirs, files, calls, proc, metadata,
                   temp_dir, args, idx, frame_files, frame_paths, response_text,
                   frame_analysis, text_result, opened, STYLES, style, lines, draws,
                   resolution, target_resolution>>

\* what Pillow may raise inside the try block: Image.open on a file that is
\* no image, resize or draw.text on bad arguments, save on a full disk
ComposeFailures == {"None", "UnidentifiedImageError", "ValueError", "OSError"}

\* lines 391-392 catching OSError only
ComposeCaughtOSError(e) == IF e = "OSError" THEN "RuntimeError" ELSE e

\* lines 391-392: except Exception as e: raise RuntimeError
ComposeCaught(e) == IF e # "None" THEN "RuntimeError" ELSE e

\* ThumbnailComposer.compose (lines 274-392) on a composer whose self.style is
\* STYLES[ref]; Pillow may fail to load, draw or save
ComposeImage(ref, image_path, main_text, subtext, output_path, res, custom_style) ==
    /\ args' = Some([image_path |-> image_path, main_text |-> main_text,
                     subtext |-> subtext, output_path |-> output_path,
                     resolution |-> res, custom_style |-> custom_style])
    /\ IF image_path \notin files
       THEN /\ Abort("FileNotFoundError")
            \* nothing is opened, and the locals of this call are never bound
            /\ opened' = None /\ style' = None /\ lines' = None /\ draws' = <<>>
            /\ UNCHANGED <<dirs, files, STYLES>>
       ELSE LET st == EffectiveStyle(STYLES[ref], custom_style)
                max_width == (res[1] * 9) \div 10
                main_lines == WrapText(main_text, st.font_size_main, max_width)
                sub_lines == IF Truthy(subtext)
                             THEN WrapText(subtext, st.font_size_sub, max_width)
                             ELSE <<>>
            IN  /\ opened' = Some(image_path)
                /\ STYLES' = [STYLES EXCEPT ![ref] = PresetAfter(@, custom_style)]
                /\ style' = Some(st)
                /\ lines' = Some([main |-> main_lines, sub |-> sub_lines,
                                  max_width |-> max_width])
                /\ \E failure \in ComposeFailures :
                    IF failure = "None"
                    THEN /\ draws' =
                            DrawLines("main", main_lines, st, st.font_size_main,
                                      MainShadowOffset, st.outline_width)
                            \o DrawLines("sub", sub_lines, st, st.font_size_sub,
                                         SubShadowOffset, Max(st.outline_width - 1, 1))
                         /\ dirs' = dirs \cup MakeDirs(output_path.dir)
                         /\ files' = files \cup {output_path}
                         /\ Goto("composed")
                    ELSE /\ draws' = <<>>
                         /\ Abort(ComposeCaught(failure))
                         /\ UNCHANGED <<dirs, files>>

\* a library caller's call of compose, the first one (at = "ready") or a
\* later one (at = "composed") on the same composer
ComposeCall(at, images, texts, subtexts, resolutions, custom_styles) ==
    /\ cmd = "composer"
    /\ pc = at
    /\ \E image_path \in images, main_text \in texts, subtext \in subtexts,
          res \in resolutions, custom_style \in custom_styles :
        ComposeImage(Val(composer).style, image_path, main_text, subtext,
                     Path(<<"out">>, <<"thumbnail.jpg">>), res, custom_style)
    /\ UNCHANGED <<cmd, video_exists, api_key, calls, proc, metadata, temp_dir, idx,
                   frame_files, frame_paths, response_text, frame_analysis,
                   text_result, composer, resolution, target_resolution>>

(***************************************************************************)
(* The composer on its own: a caller constructs a ThumbnailComposer and    *)
(* calls compose, with and without overrides, any number of times.         *)
(***************************************************************************)
MaxTextLen == 4         \* longest text, in characters

ComposeTexts == UNION {[1..k -> {"a", " "}] : k \in 0..MaxTextLen}

ComposeSubtexts == {None, <<"a">>, <<"a", " ", "a">>}

StyleNames == {"youtube", "minimalist", "bold", "tech", "unknown"}

\* target sizes from a few glyphs wide to the default (1280, 720)
Resolutions == {<<40, 40>>, <<100, 60>>, <<200, 100>>, <<1280, 720>>}

CustomStyles ==
    {None,
     [outline_width |-> 0],
     [outline_color |-> None],
     [outline_color |-> <<255, 255, 0>>],
     [font_size_main |-> 96, text_color |-> <<255, 0, 255>>,
      outline_color |-> <<255, 255, 0>>, outline_width |-> 5, position |-> "center"]}

SourceImage == Path(<<"out">>, FrameName(1))

InitCompose ==
    /\ InitOf("composer")
    /\ video_exists = TRUE
    /\ frame_paths = None
    /\ dirs = {<<"out">>}
    /\ files = {SourceImage}

\* an image that exists and one that does not
ImagePaths == {SourceImage, Path(<<"out">>, FrameName(2))}

\* the arguments of a later call on the same composer
LaterSubtexts == {None, <<"a">>}
LaterCustomStyles == {None, [outline_width |-> 0]}

NextCompose ==
    \/ NewComposer(StyleNames)
    \/ ComposeCall("ready", ImagePaths, ComposeTexts, ComposeSubtexts, Resolutions,
                   CustomStyles)
    \/ ComposeCall("composed", {SourceImage}, {<<"a">>}, LaterSubtexts,
                   {<<1280, 720>>}, LaterCustomStyles)

SpecCompose == InitCompose /\ [][NextCompose]_vars

(***************************************************************************)
(* The commands `generate` and `analyze` (main.py:67-272).                 *)
(***************************************************************************)
OutputDir == <<"output">>                       \* dirname("./output/thumbnail.jpg")
FramesTemp == <<"output", "frames_temp">>       \* main.py:131
AnalyzeDir == <<"output", "frames">>            \* main.py:208
Thumbnail == Path(OutputDir, <<"thumbnail.jpg">>)

CliMaxWords == 6        \* max_words=6

FramesDir == IF cmd = "generate" THEN FramesTemp ELSE AnalyzeDir

\* main.py:132 and 234: extract_frames(num_frames=frames, output_dir=...)
CliArgs ==
    { [num_frames |-> n, output_dir |-> Some(FramesDir),
       skip_start |-> DefaultSkip, skip_end |-> DefaultSkip] : n \in 0..MaxFrames }

\* main.py:88
ResMap == ("720p" :> <<1280, 720>>) @@ ("1080p" :> <<1920, 1080>>)

\* main.py:120 with >= for >
IsVerticalOrSquare(video_width, video_height) == video_height >= video_width

\* main.py:120
IsVertical(video_width, video_height) == video_height > video_width

\* main.py:88-89 and 113-128: the base resolution, swapped for a vertical video
Resolve ==
    /\ cmd = "generate"
    /\ pc = "constructed"
    /\ \E r \in DOMAIN ResMap :
        LET base_resolution == ResMap[r]
            video_width == Val(metadata).width
            video_height == Val(metadata).height
        IN  /\ resolution' = Some(r)
            /\ target_resolution' =
                    IF IsVertical(video_width, video_height)
                    THEN Some(<<base_resolution[2], base_resolution[1]>>)
                    ELSE Some(base_resolution)
    /\ Goto("resolved")
    /\ UNCHANGED <<cmd, video_exists, api_key, dirs, files, calls, proc, metadata,
                   temp_dir, args, idx, frame_files, frame_paths, response_text,
                   frame_analysis, text_result, opened, STYLES, composer, style,
                   lines, draws>>

\* analyze, main.py:232-235: the with block ends, __exit__ runs cleanup.  (When
\* extract_frames raises inside the block, cleanup runs too; analyze passes an
\* output_dir, so temp_dir is None and it removes nothing.)
WithExit ==
    /\ cmd = "analyze"
    /\ pc = "extracted"
    /\ dirs' = CleanupDirs
    /\ files' = CleanupFiles
    /\ temp_dir' = CleanupTemp
    /\ Goto("closed")
    /\ UNCHANGED renderVars
    /\ UNCHANGED <<cmd, video_exists, api_key, calls, proc, metadata, args, idx,
                   frame_files, frame_paths, response_text, frame_analysis,
                   text_result, opened>>

\* Report with the removal of the frames directory (main.py:167-170) moved
\* before the composition
ReportThenRemove ==
    /\ cmd \in {"generate", "analyze"}
    /\ pc = "texted"
    /\ IF "main_text" \notin DOMAIN Val(text_result)
       THEN Abort("KeyError") /\ UNCHANGED <<dirs, files>>
       ELSE IF cmd = "generate"
       THEN /\ Goto("reported")
            /\ dirs' = RmTreeDirs(dirs, FramesTemp)
            /\ files' = RmTreeFiles(files, FramesTemp)
       ELSE pc' = "exit" /\ exit_code' = 0 /\ UNCHANGED <<exc, dirs, files>>
    /\ UNCHANGED renderVars
    /\ UNCHANGED <<cmd, video_exists, api_key, calls, proc, metadata,
                   temp_dir, args, idx, frame_files, frame_paths, response_text,
                   frame_analysis, text_result, opened>>

\* main.py:148-152 and 249-268: print the selection and text_result['main_text']
Report ==
    /\ cmd \in {"generate", "analyze"}
    /\ pc = "texted"
    /\ IF "main_text" \notin DOMAIN Val(text_result)
       THEN Abort("KeyError")
       ELSE IF cmd = "generate"
       THEN Goto("reported")
       ELSE pc' = "exit" /\ exit_code' = 0 /\ UNCHANGED exc
    /\ UNCHANGED renderVars
    /\ UNCHANGED <<cmd, video_exists, api_key, dirs, files, calls, proc, metadata,
                   temp_dir, args, idx, frame_files, frame_paths, response_text,
                   frame_analysis, text_result, opened>>

CliStyles == {"youtube", "minimalist"}     \* two of the --style choices

\* main.py:157-163: ThumbnailComposer(style=style), then
\* create_thumbnail_from_analysis (composer.py:394-419)
Compose ==
    /\ cmd = "generate"
    /\ pc = "reported"
    /\ \E name \in CliStyles :
        /\ composer' = Some([style_name |-> name, style |-> name])
        /\ ComposeImage(name, Val(frame_analysis).best_frame_path,
                        Val(text_result).main_text,
                        Get(Val(text_result), "subtext", None),
                        Thumbnail, Val(target_resolution), None)
    /\ UNCHANGED <<cmd, video_exists, api_key, calls, proc, metadata, temp_dir,
                   idx, frame_files, frame_paths, response_text,
                   frame_analysis, text_result, resolution, target_resolution>>

\* the end of generate removing only the frames it extracted, and the
\* directory when that leaves it empty
RemoveFramesExtractedOnly ==
    /\ cmd = "generate"
    /\ pc = "composed"
    /\ files' = {f \in files : \A i \in 1..Len(Val(frame_paths)) : Val(frame_paths)[i] # f}
    /\ dirs' = IF \E f \in files' : IsPrefix(FramesTemp, f.dir)
               THEN dirs ELSE RmTreeDirs(dirs, FramesTemp)
    /\ pc' = "exit"
    /\ exit_code' = 0
    /\ UNCHANGED renderVars
    /\ UNCHANGED <<cmd, exc, video_exists, api_key, calls, proc, metadata, temp_dir,
                   args, idx, frame_files, frame_paths, response_text,
                   frame_analysis, text_result, opened>>

\* main.py:167-173: remove the frames directory and finish
RemoveFrames ==
    /\ cmd = "generate"
    /\ pc = "composed"
    /\ dirs' = IF FramesTemp \in dirs THEN RmTreeDirs(dirs, FramesTemp) ELSE dirs
    /\ files' = IF FramesTemp \in dirs THEN RmTreeFiles(files, FramesTemp) ELSE files
    /\ pc' = "exit"
    /\ exit_code' = 0
    /\ UNCHANGED renderVars
    /\ UNCHANGED <<cmd, exc, video_exists, api_key, calls, proc, metadata, temp_dir,
                   args, idx, frame_files, frame_paths, response_text,
                   frame_analysis, text_result, opened>>

\* the ffprobe outputs, replies and prompts explored at the command level
CliProbes ==
    {ProbeOk(d, w, h) : d \in 0..MaxDuration, w \in Dimensions, h \in Dimensions}
        \cup {r \in ProbeResults : r.returncode # 0}

CliReplies ==
    {[error |-> TRUE, text |-> <<>>],
     [error |-> FALSE, text |-> <<Prose>>],
     [error |-> FALSE, text |-> <<LB, Prose, RB>>]}
        \cup {[error |-> FALSE, text |-> <<LB, Tok("best_frame_index", i), RB>>] :
                i \in IndexValues}

CliTextReplies ==
    {[error |-> TRUE, text |-> <<>>],
     [error |-> FALSE, text |-> <<Prose>>],
     [error |-> FALSE, text |-> <<LB, RB>>],
     [error |-> FALSE, text |-> <<LB, Prose, RB>>],
     [error |-> FALSE, text |-> <<LB, Tok("main_text", 1), RB>>]}

CliPrompts == {<<"a">>}

\* what an earlier run may have left in the frames directory: frames, and a
\* file that no extraction writes
LeftOver(dir) ==
    {fs \cup other : fs \in StaleFiles(dir), other \in SUBSET {Path(dir, <<"cover.png">>)}}

Init ==
    /\ \E c \in {"generate", "analyze"} : InitOf(c)
    /\ video_exists = TRUE              \* click.Path(exists=True)
    /\ frame_paths = None
    /\ \/ dirs = {} /\ files = {}
       \/ dirs = MakeDirs(FramesDir) /\ files \in LeftOver(FramesDir)

Next ==
    \/ Construct(CliProbes)
    \/ Resolve
    \/ ExtractBegin(CliArgs)
    \/ ExtractOne
    \/ ExtractEnd
    \/ WithExit
    \/ NewAnalyzer
    \/ AnalyzeFrames(CliReplies)
    \/ GenerateText(CliPrompts, {CliMaxWords}, CliTextReplies)
    \/ Report
    \/ Compose
    \/ RemoveFrames

Spec == Init /\ [][Next]_vars

(***************************************************************************)
(* Properties.                                                             *)
(***************************************************************************)
LastCall == IF Len(calls) = 0 THEN "none" ELSE calls[Len(calls)].tool

\* C1: for num_frames >= 2 and a positive usable span, an extract_frames call
\* whose ffmpeg invocations all exit with status 0 returns exactly num_frames
\* frame paths.  (SpecExtract)
C1_ExactlyNumFrames ==
    (pc = "extracted" /\ Val(args).num_frames >= 2)
        => Len(Val(frame_paths)) = Val(args).num_frames

\* C2: every result returned by analyze_frames has
\* 0 <= best_frame_index < len(frame_paths) and
\* best_frame_path = frame_paths[best_frame_index].  (SpecSelect)
C2_BestIndexInRange ==
    frame_analysis # None =>
        LET r == Val(frame_analysis)
            paths == Val(frame_paths)
        IN  /\ 0 <= r.best_frame_index
            /\ r.best_frame_index < Len(paths)
            /\ r.best_frame_path = paths[r.best_frame_index + 1]

\* no JSON object can be parsed from the text
Unparseable(text) ==
    \/ ~(\E i, j \in 1..Len(text) : i < j /\ text[i] = LB /\ text[j] = RB)
    \/ \A i, j \in 1..Len(text) :
            (i < j /\ text[i] = LB /\ text[j] = RB)
                => \E k \in (i + 1)..(j - 1) : ~IsMember(text[k])

\* C3: when the model returned a response from whose text no JSON object can be
\* parsed, analyze_frames and generate_thumbnail_text do not raise: they return
\* their fallback value (index 0 / the truncated description).  (SpecSelect)
C3_UnparseableFallsBack ==
    (response_text # None /\ Unparseable(Val(response_text))) =>
        /\ exc = "None"
        /\ LastCall = "analyze_frames" =>
                frame_analysis # None /\ Val(frame_analysis).best_frame_index = 0
        /\ LastCall = "generate_thumbnail_text" =>
                /\ text_result # None
                /\ Val(text_result).main_text
                        = Slice(Val(args).description, Val(args).max_words * CharsPerWord)

\* the text has a "{" with a "}" somewhere after it
HasBraces(text) == \E i \in 1..Len(text) : \E j \in (i + 1)..Len(text) :
                        text[i] = LB /\ text[j] = RB

\* C4: given a response text with no '{...}' substring, analyze_frames returns
\* successfully with best_frame_index = 0, best_frame_path = frame_paths[0],
\* scores = [] and reasoning equal to the raw response text.  (SpecSelect)
C4_NoBracesFallback ==
    (LastCall = "analyze_frames" /\ response_text # None
            /\ ~HasBraces(Val(response_text))) =>
        /\ exc = "None"
        /\ pc = "analyzed"
        /\ frame_analysis # None
        /\ Val(frame_analysis).best_frame_index = 0
        /\ Val(frame_analysis).best_frame_path = Val(frame_paths)[1]
        /\ Val(frame_analysis).scores = <<>>
        /\ Val(frame_analysis).reasoning = Val(response_text)

C4_Witness ==
    /\ pc = "analyzed"
    /\ Len(Val(frame_paths)) = 2
    /\ response_text = Some(<<RB, Tok("best_frame_index", 1), LB>>)
    /\ Val(frame_analysis).best_frame_index = 0
    /\ Val(frame_analysis).reasoning = <<RB, Tok("best_frame_index", 1), LB>>

\* C5: in generate, whenever compose runs, the frames directory is still there
\* and the selected frame is an existing file at the moment compose opens it,
\* whichever index the selector chose.  (Spec)
C5_FrameExistsWhenComposed ==
    [][(cmd = "generate" /\ pc = "reported" /\ pc' # "reported") =>
            /\ FramesTemp \in dirs
            /\ Val(frame_analysis).best_frame_path \in files
            /\ opened' = Some(Val(frame_analysis).best_frame_path)]_vars

C5_Witness ==
    /\ cmd = "generate"
    /\ pc = "composed"
    /\ opened = Some(Path(FramesTemp, FrameName(2)))
    /\ Val(frame_analysis).best_frame_index = -1

\* C6: after generate terminates, the frames working directory no longer
\* exists, after success and also after an error in analysis or composition.
\* (Spec)
C6_FramesDirRemovedOnExit ==
    (cmd = "generate" /\ pc = "exit" /\ frame_paths # None) => FramesTemp \notin dirs

\* the command ended on the ValueError of FrameAnalyzer.__init__: after a
\* successful extraction nothing else raises ValueError
MissingKeyRaised ==
    ~api_key /\ pc = "exit" /\ exc = "ValueError" /\ frame_paths # None

\* C7: a missing API key makes generate and analyze fail with a non-zero exit
\* before any external call: no ffprobe or ffmpeg invocation and no model
\* request has happened when the error is raised.  (Spec)
C7_MissingKeyFailsFast ==
    MissingKeyRaised => exit_code # 0 /\ calls = <<>>

\* ffprobe succeeded and the r_frame_rate of the video stream is "n/0"
ZeroDenominatorProbed ==
    /\ proc # None
    /\ Val(proc).tool = "ffprobe" /\ Val(proc).returncode = 0 /\ Val(proc).json
    /\ "streams" \in DOMAIN Val(proc).stdout
    /\ \E i \in 1..Len(Val(proc).stdout["streams"]) :
        LET s == Val(proc).stdout["streams"][i] IN
        /\ s["codec_type"] = "video"
        /\ \A j \in 1..(i - 1) : Val(proc).stdout["streams"][j]["codec_type"] # "video"
        /\ "r_frame_rate" \in DOMAIN s
        /\ s["r_frame_rate"] \in {<<"3", "0", "/", "0">>, <<"0", "/", "0">>}

\* C8: when the video stream's r_frame_rate has a zero denominator, constructing
\* VideoProcessor fails with RuntimeError, not with an arithmetic exception.
\* (SpecProbe)
C8_ZeroDenominatorIsProbeError ==
    ZeroDenominatorProbed => exc = "RuntimeError"

\* C9: the metadata of a successfully constructed VideoProcessor has
\* duration >= 0, width > 0, height > 0, fps > 0 and bitrate >= 0.  (SpecProbe)
C9_MetadataFieldsValid ==
    metadata # None =>
        /\ Val(metadata).duration >= 0
        /\ Val(metadata).width > 0
        /\ Val(metadata).height > 0
        /\ Val(metadata).fps.num > 0 /\ Val(metadata).fps.den > 0
        /\ Val(metadata).bitrate >= 0

\* ffprobe succeeded and printed no stream with codec_type "video"
NoVideoStreamProbed ==
    /\ proc # None
    /\ Val(proc).tool = "ffprobe" /\ Val(proc).returncode = 0 /\ Val(proc).json
    /\ "streams" \in DOMAIN Val(proc).stdout
    /\ \A i \in 1..Len(Val(proc).stdout["streams"]) :
            Val(proc).stdout["streams"][i]["codec_type"] # "video"

MaxIndex == 10000       \* largest idx explored

InitOrder ==
    /\ InitOf("sorted")
    /\ video_exists = TRUE
    /\ frame_paths = None
    /\ dirs = {<<"out">>}
    /\ files = {}

\* lines 136-158 for idx = i and idx = i + 1
NameFrames ==
    /\ pc = "start"
    /\ \E i \in 1..(MaxIndex - 1) :
        /\ idx' = i + 1
        /\ frame_files' = <<Path(<<"out">>, FrameName(i)), Path(<<"out">>, FrameName(i + 1))>>
        /\ files' = {Path(<<"out">>, FrameName(i)), Path(<<"out">>, FrameName(i + 1))}
    /\ Goto("extracting")
    /\ UNCHANGED renderVars
    /\ UNCHANGED <<cmd, video_exists, api_key, dirs, calls, proc, metadata, temp_dir,
                   args, frame_paths, response_text, frame_analysis, text_result,
                   opened>>

\* line 163: return sorted(frame_files)
SortFrames ==
    /\ cmd = "sorted"
    /\ pc = "extracting"
    /\ frame_paths' = Some(Sorted(frame_files))
    /\ Goto("extracted")
    /\ UNCHANGED renderVars
    /\ UNCHANGED <<cmd, video_exists, api_key, dirs, files, calls, proc, metadata,
                   temp_dir, args, idx, frame_files, response_text, frame_analysis,
                   text_result, opened>>

NextOrder == NameFrames \/ SortFrames

SpecOrder == InitOrder /\ [][NextOrder]_vars

\* C11: the list returned by extract_frames is in chronological extraction
\* order: sorting the frame file names lexically does not change the order in
\* which the frames were extracted, for every num_frames.  (SpecOrder)
C11_SortedKeepsExtractionOrder ==
    (cmd = "sorted" /\ pc = "extracted") => Val(frame_paths) = frame_files

\* C12: extract_frames raises ValueError whenever
\* duration - skip_start_seconds - skip_end_seconds <= 0, and then issues no
\* ffmpeg call and returns no paths.  (SpecExtract)
C12_TooShortIsValueError ==
    (args # None /\ "skip_start" \in DOMAIN Val(args)
        /\ Val(metadata).duration - Val(args).skip_start - Val(args).skip_end <= 0) =>
            /\ exc = "ValueError"
            /\ pc = "raised"
            /\ frame_paths = None
            /\ \A k \in 1..Len(calls) : calls[k].tool # "ffmpeg"

C12_Witness ==
    /\ exc = "ValueError"
    /\ Val(metadata).duration = 4
    /\ Val(args).skip_start = 2 /\ Val(args).skip_end = 2 /\ Val(args).num_frames = 3
    /\ Len(calls) = 1

\* the ffmpeg -ss invocations made so far, in order
RECURSIVE SeekCalls(_)
SeekCalls(log) ==
    IF Len(log) = 0 THEN <<>>
    ELSE IF Head(log).tool = "ffmpeg" THEN <<Head(log)>> \o SeekCalls(Tail(log))
    ELSE SeekCalls(Tail(log))

\* C13: extract_frames requests timestamp[i] = skip_start + i*usable/(num_frames-1)
\* for i in 0..num_frames-1, usable = duration - skip_start - skip_end: the
\* first request is at skip_start, the last at duration - skip_end, and the
\* timestamps are strictly increasing and evenly spaced.  (SpecExtract)
C13_EvenlySpacedTimestamps ==
    (args # None /\ "skip_start" \in DOMAIN Val(args)) =>
        LET a == Val(args)
            n == a.num_frames
            duration == Val(metadata).duration
            usable == duration - a.skip_start - a.skip_end
            ts == SeekCalls(calls)
        IN  /\ \A k \in 1..Len(ts) :
                /\ ts[k].den > 0
                \* ts[k] = skip_start + (k - 1) * usable / (n - 1)
                /\ ts[k].num * (n - 1) = ts[k].den * (a.skip_start * (n - 1) + (k - 1) * usable)
            /\ Len(ts) >= 1 => ts[1].num = a.skip_start * ts[1].den
            /\ pc = "extracted" =>
                /\ Len(ts) = n
                /\ ts[n].num = (duration - a.skip_end) * ts[n].den
            \* strictly increasing
            /\ \A k \in 1..(Len(ts) - 1) : ts[k].num * ts[k + 1].den < ts[k + 1].num * ts[k].den
            \* evenly spaced: ts[k + 1] - ts[k] = ts[2] - ts[1]
            /\ \A k \in 1..(Len(ts) - 1) :
                (ts[k + 1].num * ts[k].den - ts[k].num * ts[k + 1].den) * ts[1].den * ts[2].den
                    = (ts[2].num * ts[1].den - ts[1].num * ts[2].den) * ts[k].den * ts[k + 1].den

C13_Witness ==
    /\ pc = "extracted"
    /\ Val(args).num_frames = 3 /\ Val(args).skip_start = 1 /\ Val(args).skip_end = 1
    /\ Val(metadata).duration = 5
    /\ SeekCalls(calls) = <<Call("ffmpeg", 2, 2), Call("ffmpeg", 5, 2), Call("ffmpeg", 8, 2)>>

\* len(s.split()): the number of maximal runs of non-blank characters
WordCount(s) ==
    Cardinality({i \in 1..Len(s) : s[i] # " " /\ (i = 1 \/ s[i - 1] = " ")})

\* C14: every result of generate_thumbnail_text(description, style, max_words)
\* has a main_text of at most max_words words, from the model's JSON and from
\* the fallback truncation alike.  (SpecSelect)
C14_MainTextWithinMaxWords ==
    (text_result # None /\ "main_text" \in DOMAIN Val(text_result)) =>
        WordCount(Val(text_result).main_text) <= Val(args).max_words

\* a request of the hosted model failed in transport or authentication
ApiFailed == LastCall \in {"analyze_frames", "generate_thumbnail_text"}
                /\ response_text = None

\* C19: when the request to the hosted model fails (transport or auth error),
\* analyze_frames and generate_thumbnail_text raise RuntimeError: no fallback
\* value is returned and the request is made once, without retry.  (SpecSelect)
C19_ApiErrorIsRuntimeError ==
    ApiFailed =>
        /\ exc = "RuntimeError"
        /\ pc = "raised"
        /\ frame_analysis = None
        /\ text_result = None
        /\ Len(calls) = 1

C19_Witness ==
    /\ ApiFailed
    /\ LastCall = "analyze_frames"
    /\ Len(Val(frame_paths)) = 2
    /\ exc = "RuntimeError"

\* the runs of ffmpeg with the fps filter made so far
RECURSIVE FpsCalls(_)
FpsCalls(log) ==
    IF Len(log) = 0 THEN 0
    ELSE (IF Head(log).tool = "ffmpeg_fps" THEN 1 ELSE 0) + FpsCalls(Tail(log))

\* C20: a call of extract_frames_interval makes a single ffmpeg invocation
\* and returns at most max_frames paths, whatever output_dir already
\* contains.  (SpecExtract)
C20_IntervalAtMostMaxFrames ==
    pc = "listed" =>
        /\ FpsCalls(calls) = 1
        /\ Len(Val(frame_paths)) <= Val(args).max_frames

\* the preset the composer was constructed for
PresetOf(c) == BuiltinStyles[IF c.style_name \in DOMAIN BuiltinStyles THEN c.style_name
                             ELSE "youtube"]

\* C15: a per-call style override never mutates the preset: STYLES and the
\* composer's style keep their original values, and a later compose without
\* overrides uses exactly the preset.  (SpecCompose)
C15_OverrideLeavesPreset ==
    /\ STYLES = BuiltinStyles
    /\ composer # None => STYLES[Val(composer).style] = PresetOf(Val(composer))
    /\ (pc = "composed" /\ ~Truthy(Val(args).custom_style))
            => Val(style) = PresetOf(Val(composer))

C15_Witness ==
    /\ pc = "composed"
    /\ Val(composer).style_name = "bold"
    /\ Val(args).custom_style = [outline_width |-> 0]
    /\ Val(style).outline_width = 0
    /\ Val(style).font_size_main = 120

\* a line fits max_width, or it is a single word wider than max_width
LineFits(line, font, max_width) ==
    \/ TextWidth(line, font) <= max_width
    \/ \A i \in 1..Len(line) : line[i] # " "

\* C16: every line that _wrap_text returns to compose is at most max_width
\* wide, max_width being 90% of the target width, except a line made of a
\* single word that is itself wider than max_width.  (SpecCompose)
C16_WrappedLinesFit ==
    lines # None =>
        LET max_width == (Val(args).resolution[1] * 9) \div 10
            wrapped == Val(lines)
        IN  /\ \A i \in 1..Len(wrapped.main) :
                LineFits(wrapped.main[i], Val(style).font_size_main, max_width)
            /\ \A i \in 1..Len(wrapped.sub) :
                LineFits(wrapped.sub[i], Val(style).font_size_sub, max_width)

C16_Witness ==
    /\ pc = "composed"
    /\ Val(args).main_text = <<"a", " ", "a", "a">>
    /\ Val(args).resolution = <<40, 40>>
    /\ Val(style).font_size_main = 72
    /\ Val(lines).main = << <<"a">>, <<"a", "a">> >>
    /\ Val(lines).sub = << <<"a">>, <<"a">> >>

\* C17: when the effective style has no outline_color or has outline_width = 0,
\* compose makes no outline draw for any line of the main text or of the
\* subtext.  (SpecCompose)
C17_NoOutlineDrawn ==
    (pc = "composed"
        /\ (~Truthy(Val(style).outline_color) \/ Val(style).outline_width = 0)) =>
            \A i \in 1..Len(draws) : draws[i].outline = 0

\* C18: generate maps 720p to (1280, 720) and 1080p to (1920, 1080) and passes
\* the pair with width and height swapped to the composer exactly when the
\* probed height is greater than the probed width; a landscape or square video
\* gets the pair unswapped.  (Spec)
C18_SwappedExactlyWhenVertical ==
    target_resolution # None =>
        LET base == IF Val(resolution) = "720p" THEN <<1280, 720>> ELSE <<1920, 1080>>
            expected == IF Val(metadata).height > Val(metadata).width
                        THEN <<base[2], base[1]>> ELSE base
        IN  /\ Val(resolution) \in {"720p", "1080p"}
            /\ Val(target_resolution) = expected
            /\ (args # None /\ "resolution" \in DOMAIN Val(args))
                    => Val(args).resolution = expected

C18_Witness ==
    /\ cmd = "generate"
    /\ pc = "composed"
    /\ Val(metadata).width = 1080 /\ Val(metadata).height = 1920
    /\ Val(resolution) = "1080p"
    /\ Val(args).resolution = <<1080, 1920>>

\* ffprobe printed a video stream with a usable frame rate and a format
\* section without bit_rate
BitRateAbsentProbed ==
    /\ proc # None
    /\ Val(proc).tool = "ffprobe" /\ Val(proc).returncode = 0 /\ Val(proc).json
    /\ "streams" \in DOMAIN Val(proc).stdout
    /\ "format" \in DOMAIN Val(proc).stdout
    /\ "bit_rate" \notin DOMAIN Val(proc).stdout["format"]
    /\ \E i \in 1..Len(Val(proc).stdout["streams"]) :
        LET s == Val(proc).stdout["streams"][i] IN
        /\ s["codec_type"] = "video"
        /\ \A j \in 1..(i - 1) : Val(proc).stdout["streams"][j]["codec_type"] # "video"
        /\ "r_frame_rate" \in DOMAIN s =>
                s["r_frame_rate"] \in {<<"3", "0", "/", "1">>, <<"0", "/", "1">>}

\* C23: when the format section of ffprobe's output has no bit_rate entry, the
\* probe succeeds with bitrate 0 in the metadata, and `info` reports the video
\* instead of failing.  (SpecProbe)
C23_MissingBitRateIsZero ==
    BitRateAbsentProbed =>
        /\ exc = "None"
        /\ metadata # None
        /\ Val(metadata).bitrate = 0
        /\ pc \in {"constructed", "exit"}
        /\ pc = "exit" => exit_code = 0

C23_Witness ==
    /\ BitRateAbsentProbed
    /\ Val(proc).stdout["format"] = [duration |-> 5]
    /\ Val(metadata).bitrate = 0
    /\ pc = "exit"
    /\ exit_code = 0

\* C24: constructing VideoProcessor on a path that does not exist raises
\* FileNotFoundError before ffprobe is invoked, and no processor with metadata
\* is produced.  (SpecProbe)
C24_MissingFileRaisesBeforeProbe ==
    (~video_exists /\ pc # "start") =>
        /\ exc = "FileNotFoundError"
        /\ calls = <<>>
        /\ proc = None
        /\ metadata = None
        /\ pc # "constructed"

C24_Witness ==
    /\ ~video_exists
    /\ exc = "FileNotFoundError"
    /\ calls = <<>>
    /\ metadata = None

\* the last ffmpeg run of extract_frames exited with a non-zero status
SeekFailed ==
    /\ LastCall = "ffmpeg"
    /\ Val(proc).tool = "ffmpeg" /\ Val(proc).returncode # 0

\* C25: in extract_frames each timestamp triggers exactly one ffmpeg
\* invocation, in increasing timestamp order; when the invocation for some
\* timestamp exits non-zero, no later timestamp is attempted, no path list is
\* returned and RuntimeError is raised, without retry.  (SpecExtract)
C25_OneRunPerTimestampAbortOnFailure ==
    (args # None /\ "skip_start" \in DOMAIN Val(args)) =>
        LET a == Val(args)
            n == a.num_frames
            ts == SeekCalls(calls)
            T == Timestamps(Val(metadata).duration, a)
        IN  \* the k-th invocation is for the k-th timestamp
            /\ \A k \in 1..Len(ts) : k <= n /\ ts[k] = Call("ffmpeg", T[k].num, T[k].den)
            /\ \A k \in 1..(Len(ts) - 1) : ts[k].num * ts[k + 1].den < ts[k + 1].num * ts[k].den
            /\ pc = "extracted" => Len(ts) = n
            /\ SeekFailed =>
                /\ exc = "RuntimeError"
                /\ pc = "raised"
                /\ frame_paths = None
                /\ Len(ts) = idx + 1
            /\ ~SeekFailed => Len(ts) = idx

C25_Witness ==
    /\ SeekFailed
    /\ exc = "RuntimeError"
    /\ Val(args).num_frames = 3
    /\ Len(SeekCalls(calls)) = 2
    /\ Len(frame_files) = 1

\* C30: extract_frames called with num_frames <= 1 and a positive usable span
\* never returns a frame list: it raises without any ffmpeg invocation,
\* ZeroDivisionError for num_frames = 1 and RuntimeError ("No frames were
\* extracted") for num_frames <= 0.  (SpecExtract)
C30_DegenerateCountRaises ==
    (args # None /\ "skip_start" \in DOMAIN Val(args)
        /\ Val(args).num_frames <= 1
        /\ Val(metadata).duration - Val(args).skip_start - Val(args).skip_end > 0) =>
            /\ SeekCalls(calls) = <<>>
            /\ frame_paths = None
            /\ pc \in {"extracting", "raised"}
            /\ Val(args).num_frames = 1 => pc = "raised"
            /\ pc = "raised" =>
                exc = IF Val(args).num_frames = 1 THEN "ZeroDivisionError" ELSE "RuntimeError"

C30_Witness ==
    /\ pc = "raised"
    /\ exc = "RuntimeError"
    /\ args # None /\ "skip_start" \in DOMAIN Val(args)
    /\ Val(args).num_frames = 0 - 1
    /\ Val(metadata).duration = 5 /\ Val(args).skip_start = 2 /\ Val(args).skip_end = 2
    /\ Len(calls) = 1

\* the requests sent to the hosted model so far, in order
RECURSIVE Requests(_)
Requests(log) ==
    IF Len(log) = 0 THEN <<>>
    ELSE IF Head(log).tool \in {"analyze_frames", "generate_thumbnail_text"}
         THEN <<Head(log).tool>> \o Requests(Tail(log))
         ELSE Requests(Tail(log))

\* C26: a generate invocation that succeeds has sent exactly one frame-selection
\* request followed by exactly one text-generation request and holds one
\* analysis and one text; while the frame selection has not succeeded, no
\* text-generation request is sent and composition does not run.  (Spec)
C26_OneSelectionThenOneText ==
    cmd = "generate" =>
        /\ (pc = "exit" /\ exit_code = 0) =>
                /\ Requests(calls) = <<"analyze_frames", "generate_thumbnail_text">>
                /\ frame_analysis # None
                /\ text_result # None
        /\ frame_analysis = None =>
                /\ \A k \in 1..Len(calls) : calls[k].tool # "generate_thumbnail_text"
                /\ text_result = None
                /\ composer = None
                /\ opened = None
                /\ Thumbnail \notin files

C26_Witness ==
    /\ cmd = "generate"
    /\ pc = "exit" /\ exit_code = 0
    /\ Requests(calls) = <<"analyze_frames", "generate_thumbnail_text">>
    /\ Len(calls) = 6
    /\ Thumbnail \in files

\* C29: when generate succeeds, the whole directory frames_temp next to the
\* output is gone, with every file that was in it before the invocation, and
\* the thumbnail written next to it still exists.  (Spec)
C29_FramesTempGoneThumbnailKept ==
    (cmd = "generate" /\ pc = "exit" /\ exit_code = 0) =>
        /\ FramesTemp \notin dirs
        /\ \A f \in files : ~IsPrefix(FramesTemp, f.dir)
        /\ Thumbnail \in files
        /\ Thumbnail.dir \in dirs

C29_Witness ==
    /\ cmd = "generate"
    /\ pc = "exit" /\ exit_code = 0
    /\ files = {Thumbnail}
    /\ dirs = {OutputDir}
    /\ Len(Val(frame_paths)) = 3

\* C22: compose raises FileNotFoundError when image_path does not exist,
\* without creating or writing output_path, and raises RuntimeError for every
\* failure while loading, drawing or encoding.  (SpecCompose)
C22_ComposeErrors ==
    (args # None /\ pc # "composed") =>
        IF Val(args).image_path \notin files
        THEN /\ exc = "FileNotFoundError"
             /\ pc = "raised"
             /\ opened = None
             /\ Val(args).output_path \notin files
        ELSE /\ exc = "RuntimeError"
             /\ pc = "raised"
             /\ opened = Some(Val(args).image_path)

C22_Witness ==
    /\ args # None
    /\ exc = "RuntimeError"
    /\ opened = Some(SourceImage)
    /\ Val(args).custom_style = [outline_color |-> None]
    /\ Val(lines).main = << <<"a", "a", "a", "a">> >>

\* C28: _wrap_text loses and reorders no word: the returned lines joined by
\* single spaces are the words of text.split() joined by single spaces, no
\* returned line is empty, and an empty or blank text gives no line.
\* (SpecCompose)
C28_WrapKeepsWords ==
    lines # None =>
        LET wrapped == Val(lines)
            main_text == Val(args).main_text
            subtext == Val(args).subtext
        IN  /\ Join(wrapped.main) = Join(SplitWords(main_text))
            /\ Join(wrapped.sub) = Join(SplitWords(subtext))
            /\ \A i \in 1..Len(wrapped.main) : Len(wrapped.main[i]) > 0
            /\ \A i \in 1..Len(wrapped.sub) : Len(wrapped.sub[i]) > 0
            /\ (\A i \in 1..Len(main_text) : main_text[i] = " ") => wrapped.main = <<>>

C28_Witness ==
    /\ lines # None
    /\ Val(args).main_text = <<" ", "a", " ", "a">>
    /\ Val(args).subtext = <<"a", " ", "a">>
    /\ Val(lines).main = << <<"a">>, <<"a">> >>
    /\ Val(lines).sub = << <<"a">>, <<"a">> >>

\* a temporary directory made by mkdtemp is still there
TempLeft == \E d \in TempDirs : d \in dirs

\* C21: after a `with VideoProcessor(...)` block exits, normally or through an
\* exception, no temporary directory the processor created inside the block
\* exists any more, whatever extract_frames / extract_frames_interval calls
\* with output_dir=None were made.  (SpecContext)
C21_NoTempDirAfterBlock ==
    pc = "closed" => ~TempLeft

\* two calls without output_dir inside one block: the block has ended and the
\* directory of the first call is still there with its frames
C21_FirstTempDirLeft ==
    /\ pc = "closed"
    /\ exc = "None"
    /\ temp_dir = None
    /\ Len(calls) = 5
    /\ calls[5].tool = "ffmpeg_fps"
    /\ <<"out">> \notin dirs
    /\ Cardinality({d \in TempDirs : d \in dirs}) = 1
    /\ \E f \in files : f.dir \in TempDirs

\* C27: cleanup and the context-manager exit remove only a temporary directory
\* the processor created: a directory the caller passed as output_dir, and
\* every file in it, is still there after any step, the exit included, so
\* `analyze` leaves its frames directory in place.  (SpecContext)
C27_CallerDirectoryKept ==
    [][ /\ \A d \in dirs : (d \notin dirs') => \E t \in TempDirs : IsPrefix(t, d)
        /\ \A f \in files : (f \notin files') => f.dir \in TempDirs
        /\ (pc' = "closed" /\ args # None /\ Val(args).output_dir = Some(<<"out">>)) =>
                (<<"out">> \in dirs' /\ ListFrames(files', <<"out">>) = ListFrames(files, <<"out">>)) ]_vars

C27_Witness ==
    /\ pc = "closed"
    /\ temp_dir = None
    /\ <<"tmp">> \in dirs
    /\ ~TempLeft
    /\ <<"out">> \in dirs
    /\ Val(args).output_dir = Some(<<"out">>)
    /\ Cardinality(ListFrames(files, <<"out">>)) = MaxFrames

====
